---- MODULE Spec2Model ----
(***************************************************************************)
(* Model of compare_network_requests.py: open_with_csv walks the index of  *)
(* (current, archive) capture files, matches every archived request to a   *)
(* current request by fuzz.partial_ratio, counts status-code differences   *)
(* and appends one report row per index entry to the output file.          *)
(* Model of get_file_names.py: open_with_csv merges the current and the    *)
(* archive index into the index of capture-file pairs (IndexSpec).         *)
(* Model of select_archived_urls.py: one sampled row per url id            *)
(* (SelectSpec).  Model of create_archive_urls.py: create_with_csv writes  *)
(* the archive urls of every seed (CreateSpec).  Model of                  *)
(* extract_network_requests.py: create_with_csv, create_with_db and the    *)
(* page visit of puppeteer_extract_requests (ExtractSpec).                 *)
(***************************************************************************)
EXTENDS Integers, Sequences, FiniteSets, TLC

\* ------------------------------------------------------------------------
\* Bounds of the model
\* ------------------------------------------------------------------------
MaxIndex == 3
MaxArch == 2
MaxCurr == 3

BSeq(S, n) == UNION {[1..k -> S] : k \in 0..n}

\* ------------------------------------------------------------------------
\* Capture records: rows of a capture file as csv.DictReader yields them
\* ------------------------------------------------------------------------
uA  == "http://x.com/a.js?v=12"
uB  == "http://x.com/a.js"
uUP == "HTTP://X.COM/A.JS"
u91 == "http://x.com/a.js?v=34"
u90 == "x.com/b.js"

Rec(u, s) == [url |-> u, status_code |-> s]

ArchRecords == {Rec(uA, "200"), Rec(uA, "404"), Rec(uB, "302"), Rec(u90, "200")}
CurrRecords == {Rec(uUP, "200"), Rec(u91, "404"), Rec(uB, "302"), Rec(u90, "302")}

\* rows of a capture file whose header lacks the url or the status_code
\* column: csv.DictReader yields dicts without that key
NoUrl(s) == [status_code |-> s]
NoStatus(u) == [url |-> u]

MalformedArch == {<<NoUrl("200")>>, <<NoStatus(uA)>>}
MalformedCurr == {<<NoUrl("200")>>, <<NoStatus(uUP)>>}

\* str.lower() on the URLs of the model
lower(s) == IF s = uUP THEN uB ELSE s

\* fuzz.partial_ratio (fuzzywuzzy, difflib matcher) on the URLs of the model:
\* the values the library returns for these strings.
partial_ratio(s1, s2) ==
    LET p == {s1, s2}
    IN  CASE s1 = s2        -> 100
          [] p = {uA, uB}   -> 100
          [] p = {uB, u91}  -> 100
          [] p = {uA, u91}  -> 91
          [] p = {uA, u90}  -> 90
          [] p = {uB, u90}  -> 90
          [] p = {u91, u90} -> 90
          [] p = {uUP, u90} -> 30
          [] OTHER          -> 35

Threshold == 90

\* ------------------------------------------------------------------------
\* find_different_requests
\* ------------------------------------------------------------------------
\* variant: the redirect exemption looks at the archived code only
find_different_requests_archive_only(request_pair) ==
    LET c_status == request_pair[1].status_code
        a_status == request_pair[2].status_code
    IN  (c_status # a_status) /\ (a_status # "302")

find_different_requests(request_pair) ==
    LET c_request == request_pair[1]
        a_request == request_pair[2]
        c_status == c_request.status_code
        a_status == a_request.status_code
    IN  (c_status # a_status) /\ (a_status # "302") /\ (c_status # "302")

\* ------------------------------------------------------------------------
\* The locals of open_with_csv.  frame.bound is the set of names that have
\* been assigned; reading any other name raises UnboundLocalError.
\* ------------------------------------------------------------------------
RECURSIVE gcd(_, _)
gcd(a, b) == IF b = 0 THEN a ELSE gcd(b, a % b)

\* n / d of two ints, as the reduced fraction <<num, den>> (d > 0)
truediv(n, d) == LET g == gcd(n, d) IN <<n \div g, d \div g>>

Bind(f, names) == [f EXCEPT !.bound = @ \cup names]

FreshFrame ==
    [bound |-> {},
     c_url |-> "", a_url |-> "", c_file_name |-> "", a_file_name |-> "",
     arch_requests_data |-> <<>>, curr_requests_data |-> <<>>,
     num_errors |-> 0, missing_requests |-> 0, matched_requests |-> <<>>,
     num_requests_in_common |-> 0, ic |-> <<0, 1>>]

\* lines 91-94
BindEntry(f, request_file) ==
    Bind([f EXCEPT !.c_url = request_file[1],
                   !.a_url = request_file[2],
                   !.c_file_name = request_file[3],
                   !.a_file_name = request_file[4]],
         {"c_url", "a_url", "c_file_name", "a_file_name"})

\* lines 102-108
ReadArchive(f, adir) ==
    Bind([f EXCEPT !.arch_requests_data = adir[f.a_file_name]],
         {"arch_requests_data"})

\* lines 110-116
ReadCurrent(f, cdir) ==
    Bind([f EXCEPT !.curr_requests_data = cdir[f.c_file_name]],
         {"curr_requests_data"})

\* variant: num_errors is not reset for the next pair
StartMatching_keep(f) ==
    Bind([f EXCEPT !.missing_requests = 0,
                   !.matched_requests = <<>>],
         {"num_errors", "missing_requests", "matched_requests"})

\* lines 120-128
StartMatching(f) ==
    Bind([f EXCEPT !.num_errors = 0,
                   !.missing_requests = 0,
                   !.matched_requests = <<>>],
         {"num_errors", "missing_requests", "matched_requests"})

\* lines 100-128: the part of the try block before the matching loop;
\* raised is TRUE when an open() raised FileNotFoundError.
ReadCaptures(f, adir, cdir) ==
    IF f.a_file_name \notin DOMAIN adir
    THEN [raised |-> TRUE, frame |-> f]
    ELSE LET f1 == ReadArchive(f, adir)
         IN  IF f1.c_file_name \notin DOMAIN cdir
             THEN [raised |-> TRUE, frame |-> f1]
             ELSE [raised |-> FALSE, frame |-> StartMatching(ReadCurrent(f1, cdir))]

\* variant: threshold compared with >= instead of >
c_row_ge(a_url, curr_requests_data) ==
    SelectSeq(curr_requests_data,
              LAMBDA c_request:
                  partial_ratio(lower(a_url), lower(c_request.url)) >= Threshold)

\* line 137: the current requests whose score against a_url exceeds 90
c_row(a_url, curr_requests_data) ==
    SelectSeq(curr_requests_data,
              LAMBDA c_request:
                  partial_ratio(lower(a_url), lower(c_request.url)) > Threshold)

\* lines 131, 137, 148 (20-21): a subscript of the iteration raises KeyError
RaisesKeyError(f, a_row) ==
    IF "url" \notin DOMAIN a_row
    THEN TRUE
    ELSE IF \E m \in 1..Len(f.curr_requests_data) :
                "url" \notin DOMAIN f.curr_requests_data[m]
         THEN TRUE
         ELSE LET cr == c_row(a_row.url, f.curr_requests_data)
              IN  /\ cr # <<>>
                  /\ \/ "status_code" \notin DOMAIN cr[1]
                     \/ "status_code" \notin DOMAIN a_row

\* lines 130-153: some iteration of the loop raises KeyError
LoopRaises(f) ==
    \E k \in 1..Len(f.arch_requests_data) :
        RaisesKeyError(f, f.arch_requests_data[k])

\* variant: pairs the archived row with the last candidate, c_row[-1]
MatchRow_last(f, a_row) ==
    LET f1 == [f EXCEPT !.a_url = a_row.url]
        cr == c_row(f1.a_url, f1.curr_requests_data)
    IN  IF cr # <<>>
        THEN LET request_pair == <<cr[Len(cr)], a_row>>
                 f2 == [f1 EXCEPT !.c_url = cr[Len(cr)].url,
                                  !.matched_requests = Append(@, request_pair)]
             IN  IF find_different_requests(request_pair)
                 THEN [f2 EXCEPT !.num_errors = @ + 1]
                 ELSE f2
        ELSE [f1 EXCEPT !.missing_requests = @ + 1]

\* variant: a current record already paired is not paired again
MatchRow_dedup(f, a_row) ==
    LET f1 == [f EXCEPT !.a_url = a_row.url]
        cr == c_row(f1.a_url, f1.curr_requests_data)
        taken == {f.matched_requests[n][1] : n \in 1..Len(f.matched_requests)}
    IN  IF cr # <<>> /\ cr[1] \notin taken
        THEN LET request_pair == <<cr[1], a_row>>
                 f2 == [f1 EXCEPT !.c_url = cr[1].url,
                                  !.matched_requests = Append(@, request_pair)]
             IN  IF find_different_requests(request_pair)
                 THEN [f2 EXCEPT !.num_errors = @ + 1]
                 ELSE f2
        ELSE [f1 EXCEPT !.missing_requests = @ + 1]

\* variant: an archived row without a candidate is not counted
MatchRow_nomiss(f, a_row) ==
    LET f1 == [f EXCEPT !.a_url = a_row.url]
        cr == c_row(f1.a_url, f1.curr_requests_data)
    IN  IF cr # <<>>
        THEN LET request_pair == <<cr[1], a_row>>
                 f2 == [f1 EXCEPT !.c_url = cr[1].url,
                                  !.matched_requests = Append(@, request_pair)]
             IN  IF find_different_requests(request_pair)
                 THEN [f2 EXCEPT !.num_errors = @ + 1]
                 ELSE f2
        ELSE f1

\* lines 130-153: one iteration of the loop over arch_requests_data
MatchRow(f, a_row) ==
    LET f1 == [f EXCEPT !.a_url = a_row.url]
        cr == c_row(f1.a_url, f1.curr_requests_data)
    IN  IF cr # <<>>
        THEN LET request_pair == <<cr[1], a_row>>
                 f2 == [f1 EXCEPT !.c_url = cr[1].url,
                                  !.matched_requests = Append(@, request_pair)]
             IN  IF find_different_requests(request_pair)
                 THEN [f2 EXCEPT !.num_errors = @ + 1]
                 ELSE f2
        ELSE [f1 EXCEPT !.missing_requests = @ + 1]

\* variant: the superseded denominator, len(arch_requests_data) (line 168)
Aggregate_archive_total(f) ==
    LET n == Len(f.matched_requests)
        f1 == Bind([f EXCEPT !.num_requests_in_common = n],
                   {"num_requests_in_common"})
    IN  IF n # 0
        THEN Bind([f1 EXCEPT !.ic = truediv(n - f1.num_errors,
                                            Len(f1.arch_requests_data))], {"ic"})
        ELSE f1

\* lines 172-182
Aggregate(f) ==
    LET n == Len(f.matched_requests)
        f1 == Bind([f EXCEPT !.num_requests_in_common = n],
                   {"num_requests_in_common"})
    IN  IF n # 0
        THEN Bind([f1 EXCEPT !.ic = truediv(n - f1.num_errors, n)], {"ic"})
        ELSE f1

\* lines 195-196: the names the row reads, and the row
RowNames ==
    {"c_url", "c_file_name", "a_url", "a_file_name", "curr_requests_data",
     "arch_requests_data", "num_requests_in_common", "num_errors", "ic"}

Row(f) ==
    <<f.c_url, f.c_file_name, f.a_url, f.a_file_name,
      Len(f.curr_requests_data), Len(f.arch_requests_data),
      f.num_requests_in_common, f.num_errors, f.ic>>

\* the whole loop over arch_requests_data, and one whole iteration of the
\* loop over index_lst up to the write (lines 91-191)
RECURSIVE MatchAll(_, _, _)
MatchAll(f, rows, k) ==
    IF k > Len(rows) THEN f ELSE MatchAll(MatchRow(f, rows[k]), rows, k + 1)

RunPair(f, request_file, adir, cdir) ==
    LET r == ReadCaptures(BindEntry(f, request_file), adir, cdir)
    IN  IF r.raised
        THEN r.frame
        ELSE Aggregate(MatchAll(r.frame, r.frame.arch_requests_data, 1))

\* the loop over index_lst from entry k of idx on (lines 90-196), stopping
\* at the first uncaught exception: a KeyError of the matching loop or a
\* write that reads an unassigned name
RECURSIVE RunPrefix(_, _, _, _, _)
RunPrefix(f, idx, k, adir, cdir) ==
    IF k > Len(idx)
    THEN [crashed |-> FALSE, frame |-> f]
    ELSE LET r == ReadCaptures(BindEntry(f, idx[k]), adir, cdir)
             g == RunPair(f, idx[k], adir, cdir)
         IN  IF ~r.raised /\ LoopRaises(r.frame)
             THEN [crashed |-> TRUE, frame |-> r.frame]
             ELSE IF RowNames \subseteq g.bound
                  THEN RunPrefix(g, idx, k + 1, adir, cdir)
                  ELSE [crashed |-> TRUE, frame |-> g]

\* ------------------------------------------------------------------------
\* Files
\* ------------------------------------------------------------------------
Header ==
    <<"current_url", "current_filename", "archive_url", "archive_filename",
      "num_current_requests", "num_archive_requests", "num_requests_in_common",
      "num_requests_with_errors", "ic">>

IndexHeader ==
    <<"current_url", "archive_url", "current_file_name", "archive_file_name">>

CurrPage == "http://x.com/"
ArchPage == "http://wayback.archive-it.org/1068/20190101/http://x.com/"

\* a small disk for runs over several index entries; the names
\* 1068.4.csv and 1068.4.20190101.csv do not exist
ArchDisk ==
    ("1068.1.20190101.csv" :> <<Rec(uA, "200")>>) @@
    ("1068.2.20190101.csv" :> <<Rec(uA, "404"), Rec(uB, "302")>>) @@
    ("1068.3.20190101.csv" :> <<>>)

CurrDisk ==
    ("1068.1.csv" :> <<Rec(uUP, "200")>>) @@
    ("1068.2.csv" :> <<>>)

ArchNames == DOMAIN ArchDisk \cup {"1068.4.20190101.csv"}
CurrNames == DOMAIN CurrDisk \cup {"1068.4.csv"}

BatchEntries == {<<CurrPage, ArchPage, cf, af>> : cf \in CurrNames, af \in ArchNames}

\* one index entry over every pair of capture files within the bounds
PairArch == "1068.9.20190101.csv"
PairCurr == "1068.9.csv"
PairEntry == <<CurrPage, ArchPage, PairCurr, PairArch>>

Entries == BatchEntries \cup {PairEntry}

\* ------------------------------------------------------------------------
\* State
\* ------------------------------------------------------------------------
VARIABLES
    index_file,     \* rows of the index file, header first
    arch_dir,       \* arch_requests_path: file name -> rows of the capture file
    curr_dir,       \* curr_requests_path: file name -> rows of the capture file
    out,            \* rows of csv_out_name
    index_lst,      \* the index rows read at lines 76-85
    i,              \* position of the loop over index_lst (line 90)
    j,              \* position of the loop over arch_requests_data (line 130)
    frame,          \* the locals of open_with_csv
    pc              \* control state

\* get_file_names.py, open_with_csv
VARIABLES
    curr_csv_file,    \* rows of curr_csv_name, header first
    arch_csv_file,    \* rows of arch_csv_name, header first
    csv_file_out,     \* rows of csv_out_name
    curr_csv_reader,  \* number of rows curr_csv_reader has yielded
    arch_csv_reader,  \* number of rows arch_csv_reader has yielded
    crow,             \* the current index row at hand
    arow,             \* the archive index row at hand
    at                \* control state

index_vars ==
    <<curr_csv_file, arch_csv_file, csv_file_out, curr_csv_reader,
      arch_csv_reader, crow, arow, at>>

compare_vars == <<index_file, arch_dir, curr_dir, out, index_lst, i, j, frame, pc>>

\* select_archived_urls.py, main
VARIABLES
    list_of_csv,      \* rows of input_csv after its header
    url_ids,          \* list(set(url_ids)) of line 39
    select_out,       \* rows of output_csv
    id_at,            \* position of the loop over url_ids (line 47)
    sel               \* control state

select_vars == <<list_of_csv, url_ids, select_out, id_at, sel>>

\* create_archive_urls.py, create_with_csv
VARIABLES
    csv_in,           \* rows of csv_in_name, header first
    remove_banner,    \* the parameter
    create_out,       \* rows of csv_out_name
    count,            \* the local of line 51
    line_at,          \* position of the loop over csv_reader (line 52)
    response,         \* outcome of the last session.get
    cr                \* control state

create_vars == <<csv_in, remove_banner, create_out, count, line_at, response, cr>>

\* extract_network_requests.py, create_with_csv / create_with_db and the
\* coroutine puppeteer_extract_requests they run for every seed
VARIABLES
    args,             \* use_db, make_csv, use_archive of parse_args
    results,          \* the seed rows: csv_reader after its header, or fetchall()
    row_at,           \* position of the loop over the seed rows
    csv_writer,       \* the CSVWriter: file_name and rows
    index_writer,     \* the IndexWriter: rows
    files,            \* capture and index files on disk: name -> rows
    table,            \* rows inserted into the network-requests table
    tasks,            \* handle_response calls scheduled by ensure_future
    browsers,         \* browsers launched and not closed
    emitted,          \* 'response' events of the page being visited
    visit,            \* control state of extract_requests and the coroutine
    ex                \* control state of create_with_csv / create_with_db

extract_vars ==
    <<args, results, row_at, csv_writer, index_writer, files, table, tasks,
      browsers, emitted, visit, ex>>

vars == <<compare_vars, index_vars, select_vars, create_vars, extract_vars>>

\* the variables of the other scripts
not_compare_vars == <<index_vars, select_vars, create_vars, extract_vars>>
not_index_vars == <<compare_vars, select_vars, create_vars, extract_vars>>
not_select_vars == <<compare_vars, index_vars, create_vars, extract_vars>>
not_create_vars == <<compare_vars, index_vars, select_vars, extract_vars>>
not_extract_vars == <<compare_vars, index_vars, select_vars, create_vars>>

\* extract_network_requests.py is not running
ExtractIdle ==
    /\ args = [use_db |-> FALSE, make_csv |-> FALSE, use_archive |-> FALSE]
    /\ results = <<>>
    /\ row_at = 0
    /\ csv_writer = [file_name |-> "", rows |-> <<>>]
    /\ index_writer = [rows |-> <<>>]
    /\ files = <<>>
    /\ table = <<>>
    /\ tasks = <<>>
    /\ browsers = 0
    /\ emitted = 0
    /\ visit = "Idle"
    /\ ex = "Idle"

\* session.get has not been called
NoResponse == [raised |-> FALSE, parts |-> <<>>]

\* create_archive_urls.py is not running
CreateIdle ==
    /\ csv_in = <<>>
    /\ remove_banner = TRUE
    /\ create_out = <<>>
    /\ count = 0
    /\ line_at = 0
    /\ response = NoResponse
    /\ cr = "Idle"

\* select_archived_urls.py is not running
SelectIdle ==
    /\ list_of_csv = <<>>
    /\ url_ids = <<>>
    /\ select_out = <<>>
    /\ id_at = 0
    /\ sel = "Idle"

\* get_file_names.py is not running
IndexIdle ==
    /\ curr_csv_file = <<>>
    /\ arch_csv_file = <<>>
    /\ csv_file_out = <<>>
    /\ curr_csv_reader = 0
    /\ arch_csv_reader = 0
    /\ crow = <<>>
    /\ arow = <<>>
    /\ at = "Idle"

InitBatch ==
    /\ index_file \in {<<IndexHeader>> \o s : s \in BSeq(BatchEntries, MaxIndex)}
    /\ arch_dir = ArchDisk
    /\ curr_dir = CurrDisk

InitPair ==
    /\ index_file = <<IndexHeader, PairEntry>>
    /\ arch_dir \in {[n \in S |-> a] : S \in SUBSET {PairArch}, a \in BSeq(ArchRecords, MaxArch) \cup MalformedArch}
    /\ curr_dir \in {[n \in S |-> c] : S \in SUBSET {PairCurr}, c \in BSeq(CurrRecords, MaxCurr) \cup MalformedCurr}

Init ==
    /\ InitBatch \/ InitPair
    /\ out = <<>>
    /\ index_lst = <<>>
    /\ i = 0
    /\ j = 0
    /\ frame = FreshFrame
    /\ pc = "Start"
    /\ IndexIdle
    /\ SelectIdle
    /\ CreateIdle
    /\ ExtractIdle

\* lines 70-72: open(csv_out_name, 'w') and the header row
WriteHeader ==
    /\ pc = "Start"
    /\ out' = <<Header>>
    /\ pc' = "ReadingIndex"
    /\ UNCHANGED <<index_file, arch_dir, curr_dir, index_lst, i, j, frame>>
    /\ UNCHANGED not_compare_vars

\* lines 76-88: skip the header, read every row of the index
ReadIndex ==
    /\ pc = "ReadingIndex"
    /\ index_lst' = IF index_file = <<>> THEN <<>> ELSE Tail(index_file)
    /\ i' = 1
    /\ pc' = "ForPair"
    /\ UNCHANGED <<index_file, arch_dir, curr_dir, out, j, frame>>
    /\ UNCHANGED not_compare_vars

\* lines 90-128, both files open
OpenCaptures ==
    /\ pc = "ForPair"
    /\ i <= Len(index_lst)
    /\ LET r == ReadCaptures(BindEntry(frame, index_lst[i]), arch_dir, curr_dir)
       IN  /\ ~r.raised
           /\ frame' = r.frame
    /\ j' = 1
    /\ pc' = "Matching"
    /\ UNCHANGED <<index_file, arch_dir, curr_dir, out, index_lst, i>>
    /\ UNCHANGED not_compare_vars

\* lines 90-116 and 190-191: an open() raises, the handler prints
FileNotFound ==
    /\ pc = "ForPair"
    /\ i <= Len(index_lst)
    /\ LET r == ReadCaptures(BindEntry(frame, index_lst[i]), arch_dir, curr_dir)
       IN  /\ r.raised
           /\ frame' = r.frame
    /\ pc' = "Emitting"
    /\ UNCHANGED <<index_file, arch_dir, curr_dir, out, index_lst, i, j>>
    /\ UNCHANGED not_compare_vars

\* lines 130-153
MatchNext ==
    /\ pc = "Matching"
    /\ j <= Len(frame.arch_requests_data)
    /\ ~RaisesKeyError(frame, frame.arch_requests_data[j])
    /\ frame' = MatchRow(frame, frame.arch_requests_data[j])
    /\ j' = j + 1
    /\ UNCHANGED <<index_file, arch_dir, curr_dir, out, index_lst, i, pc>>
    /\ UNCHANGED not_compare_vars

\* lines 131, 137, 148: a capture row lacks a key; except FileNotFoundError
\* (line 190) does not catch KeyError
KeyError ==
    /\ pc = "Matching"
    /\ j <= Len(frame.arch_requests_data)
    /\ RaisesKeyError(frame, frame.arch_requests_data[j])
    /\ pc' = "Crashed"
    /\ UNCHANGED <<index_file, arch_dir, curr_dir, out, index_lst, i, j, frame>>
    /\ UNCHANGED not_compare_vars

\* lines 155-182
Aggregating ==
    /\ pc = "Matching"
    /\ j > Len(frame.arch_requests_data)
    /\ frame' = Aggregate(frame)
    /\ pc' = "Emitting"
    /\ UNCHANGED <<index_file, arch_dir, curr_dir, out, index_lst, i, j>>
    /\ UNCHANGED not_compare_vars

\* variant: the row is written with open(csv_out_name, 'w')
EmitRow_truncating ==
    /\ pc = "Emitting"
    /\ RowNames \subseteq frame.bound
    /\ out' = <<Row(frame)>>
    /\ i' = i + 1
    /\ pc' = "ForPair"
    /\ UNCHANGED <<index_file, arch_dir, curr_dir, index_lst, j, frame>>
    /\ UNCHANGED not_compare_vars

\* variant: the row is inserted right after the header
EmitRow_prepend ==
    /\ pc = "Emitting"
    /\ RowNames \subseteq frame.bound
    /\ out' = <<Header, Row(frame)>> \o Tail(out)
    /\ i' = i + 1
    /\ pc' = "ForPair"
    /\ UNCHANGED <<index_file, arch_dir, curr_dir, index_lst, j, frame>>
    /\ UNCHANGED not_compare_vars

\* lines 193-196
EmitRow ==
    /\ pc = "Emitting"
    /\ RowNames \subseteq frame.bound
    /\ out' = Append(out, Row(frame))
    /\ i' = i + 1
    /\ pc' = "ForPair"
    /\ UNCHANGED <<index_file, arch_dir, curr_dir, index_lst, j, frame>>
    /\ UNCHANGED not_compare_vars

\* lines 195-196: a name of the row was never assigned; nothing catches it
UnboundLocalError ==
    /\ pc = "Emitting"
    /\ ~(RowNames \subseteq frame.bound)
    /\ pc' = "Crashed"
    /\ UNCHANGED <<index_file, arch_dir, curr_dir, out, index_lst, i, j, frame>>
    /\ UNCHANGED not_compare_vars

\* line 90: index_lst is exhausted, open_with_csv returns
Finish ==
    /\ pc = "ForPair"
    /\ i > Len(index_lst)
    /\ pc' = "Done"
    /\ UNCHANGED <<index_file, arch_dir, curr_dir, out, index_lst, i, j, frame>>
    /\ UNCHANGED not_compare_vars

Next ==
    \/ WriteHeader
    \/ ReadIndex
    \/ OpenCaptures
    \/ FileNotFound
    \/ MatchNext
    \/ KeyError
    \/ Aggregating
    \/ EmitRow
    \/ UnboundLocalError
    \/ Finish

Spec == Init /\ [][Next]_vars

\* ------------------------------------------------------------------------
\* get_file_names.py: open_with_csv walks the current and the archive index
\* side by side and writes the index of (current, archive) capture files
\* ------------------------------------------------------------------------
MaxCurrIndex == 2
MaxArchIndex == 2

Successful == "Extraction successful"
Unsuccessful == "Extraction unsuccessful"

CurrIndexHeader ==
    <<"archive_id", "url_id", "current_url", "site_status", "site_message",
      "extraction_message">>

ArchIndexHeader ==
    <<"archive_id", "url_id", "date", "archive_url", "site_status",
      "site_message", "extraction_message">>

UrlIds == {"1", "2"}
Dates == {"20190101", "20200101"}

CurrUrl(id) == "http://x.com/" \o id
ArchUrl(id, date) == "http://wayback.archive-it.org/1068/" \o date \o "/" \o CurrUrl(id)

\* rows of the two index files as IndexWriter.writerow lays them out
CurrIndexRow(id, m) ==
    <<"1068", id, CurrUrl(id),
      IF m = Successful THEN "LIVE" ELSE "FAIL",
      IF m = Successful THEN "Successful connection" ELSE "HTTP Error 404",
      m>>

ArchIndexRow(id, date, m) ==
    <<"1068", id, date, ArchUrl(id, date),
      IF m = Successful THEN "LIVE" ELSE "FAIL",
      IF m = Successful THEN "Successful connection" ELSE "HTTP Error 404",
      m>>

CurrIndexRows == {CurrIndexRow(id, m) : id \in UrlIds, m \in {Successful, Unsuccessful}}
ArchIndexRows ==
    {ArchIndexRow(id, d, m) : id \in UrlIds, d \in Dates, m \in {Successful, Unsuccessful}}

\* int() and "{}".format() on the url ids of the model
int(s) == CASE s = "1" -> 1 [] s = "2" -> 2
str(n) == CASE n = 1 -> "1" [] n = 2 -> "2"

\* next(reader) of a reader that has yielded n rows of file: StopIteration
\* when no row is left, else the row and the new position
next(file, n) ==
    IF n >= Len(file)
    THEN [raised |-> TRUE, row |-> <<>>, pos |-> n]
    ELSE [raised |-> FALSE, row |-> file[n + 1], pos |-> n + 1]

\* variant: the extraction status of the current row is not looked at
Branch_any_current_status(c, a) ==
    LET curl_id == int(c[2])
        aurl_id == int(a[2])
        aextraction_status == a[Len(a)]
    IN  IF curl_id > aurl_id \/ aextraction_status # "Extraction successful"
        THEN "archive"
        ELSE IF curl_id < aurl_id
             THEN "current"
             ELSE "write"

\* lines 41-56: which branch the iteration takes for rows c (current) and
\* a (archive)
Branch(c, a) ==
    LET curl_id == int(c[2])
        cextraction_status == c[Len(c)]
        aurl_id == int(a[2])
        aextraction_status == a[Len(a)]
    IN  IF curl_id > aurl_id \/ aextraction_status # "Extraction successful"
        THEN "archive"
        ELSE IF curl_id < aurl_id \/ cextraction_status # "Extraction successful"
             THEN "current"
             ELSE "write"

\* lines 57-60: the row written for rows c and a
current_filename(c) == c[1] \o "." \o str(int(c[2])) \o ".csv"
archive_filename(a) == a[1] \o "." \o str(int(a[2])) \o "." \o a[3] \o ".csv"
PairRow(c, a) == <<c[3], a[4], current_filename(c), archive_filename(a)>>

CompareIdle ==
    /\ index_file = <<>>
    /\ arch_dir = ArchDisk
    /\ curr_dir = CurrDisk
    /\ out = <<>>
    /\ index_lst = <<>>
    /\ i = 0
    /\ j = 0
    /\ frame = FreshFrame
    /\ pc = "Idle"

IndexInit ==
    /\ curr_csv_file \in
         {<<>>} \cup {<<CurrIndexHeader>> \o s : s \in BSeq(CurrIndexRows, MaxCurrIndex)}
    /\ arch_csv_file \in
         {<<>>} \cup {<<ArchIndexHeader>> \o s : s \in BSeq(ArchIndexRows, MaxArchIndex)}
    /\ csv_file_out = <<>>
    /\ curr_csv_reader = 0
    /\ arch_csv_reader = 0
    /\ crow = <<>>
    /\ arow = <<>>
    /\ at = "Start"
    /\ CompareIdle
    /\ SelectIdle
    /\ CreateIdle
    /\ ExtractIdle

\* lines 21-28: the three files are opened, the header row is written
OpenIndexes ==
    /\ at = "Start"
    /\ csv_file_out' = <<IndexHeader>>
    /\ at' = "Header"
    /\ UNCHANGED <<curr_csv_file, arch_csv_file, curr_csv_reader, arch_csv_reader, crow, arow>>
    /\ UNCHANGED not_index_vars

\* lines 31-36: the headers are skipped and the first rows read
FirstRows ==
    /\ at = "Header"
    /\ Len(curr_csv_file) >= 2
    /\ Len(arch_csv_file) >= 2
    /\ crow' = next(curr_csv_file, 1).row
    /\ arow' = next(arch_csv_file, 1).row
    /\ curr_csv_reader' = 2
    /\ arch_csv_reader' = 2
    /\ at' = "Loop"
    /\ UNCHANGED <<curr_csv_file, arch_csv_file, csv_file_out>>
    /\ UNCHANGED not_index_vars

\* lines 31-36: one of the four next() calls raises StopIteration; they
\* stand before the try of line 38
StopIterationEscapes ==
    /\ at = "Header"
    /\ \/ Len(curr_csv_file) < 2
       \/ Len(arch_csv_file) < 2
    /\ at' = "Crashed"
    /\ UNCHANGED <<curr_csv_file, arch_csv_file, csv_file_out, curr_csv_reader,
                   arch_csv_reader, crow, arow>>
    /\ UNCHANGED not_index_vars

\* lines 50-51 (and 67-68 when the archive reader is exhausted)
AdvanceArchive ==
    /\ at = "Loop"
    /\ Branch(crow, arow) = "archive"
    /\ LET n == next(arch_csv_file, arch_csv_reader)
       IN  /\ arow' = IF n.raised THEN arow ELSE n.row
           /\ arch_csv_reader' = n.pos
           /\ at' = IF n.raised THEN "Done" ELSE "Loop"
    /\ UNCHANGED <<curr_csv_file, arch_csv_file, csv_file_out, curr_csv_reader, crow>>
    /\ UNCHANGED not_index_vars

\* lines 53-54 (and 67-68 when the current reader is exhausted)
AdvanceCurrent ==
    /\ at = "Loop"
    /\ Branch(crow, arow) = "current"
    /\ LET n == next(curr_csv_file, curr_csv_reader)
       IN  /\ crow' = IF n.raised THEN crow ELSE n.row
           /\ curr_csv_reader' = n.pos
           /\ at' = IF n.raised THEN "Done" ELSE "Loop"
    /\ UNCHANGED <<curr_csv_file, arch_csv_file, csv_file_out, arch_csv_reader, arow>>
    /\ UNCHANGED not_index_vars

\* variant: after a pair is written both readers move on
WritePair_advance_both ==
    /\ at = "Loop"
    /\ Branch(crow, arow) = "write"
    /\ csv_file_out' = Append(csv_file_out, PairRow(crow, arow))
    /\ LET n == next(arch_csv_file, arch_csv_reader)
           c == next(curr_csv_file, curr_csv_reader)
       IN  /\ arow' = IF n.raised THEN arow ELSE n.row
           /\ arch_csv_reader' = n.pos
           /\ crow' = IF c.raised THEN crow ELSE c.row
           /\ curr_csv_reader' = c.pos
           /\ at' = IF n.raised \/ c.raised THEN "Done" ELSE "Loop"
    /\ UNCHANGED <<curr_csv_file, arch_csv_file>>
    /\ UNCHANGED not_index_vars

\* lines 56-65 (and 67-68 when the archive reader is exhausted)
WritePair ==
    /\ at = "Loop"
    /\ Branch(crow, arow) = "write"
    /\ csv_file_out' = Append(csv_file_out, PairRow(crow, arow))
    /\ LET n == next(arch_csv_file, arch_csv_reader)
       IN  /\ arow' = IF n.raised THEN arow ELSE n.row
           /\ arch_csv_reader' = n.pos
           /\ at' = IF n.raised THEN "Done" ELSE "Loop"
    /\ UNCHANGED <<curr_csv_file, arch_csv_file, curr_csv_reader, crow>>
    /\ UNCHANGED not_index_vars

IndexNext ==
    \/ OpenIndexes
    \/ FirstRows
    \/ StopIterationEscapes
    \/ AdvanceArchive
    \/ AdvanceCurrent
    \/ WritePair

IndexSpec == IndexInit /\ [][IndexNext]_vars

\* ------------------------------------------------------------------------
\* select_archived_urls.py: main keeps one randomly chosen row of the input
\* for every url id
\* ------------------------------------------------------------------------
MaxSelect == 3

SelectHeader == <<"archive_id", "url_id", "date", "archive_url">>

\* rows of input_csv: archive_id, url_id, date, archive_url
SelectRow(archive_id, url_id) ==
    <<archive_id, url_id, "20190101",
      "http://wayback.archive-it.org/" \o archive_id \o "/20190101/" \o CurrUrl(url_id)>>

SelectRows == {SelectRow(a, u) : a \in {"2", "1068"}, u \in UrlIds}

\* lines 8-14: the (row, column) positions of lst that hold value
find_all_instances(lst, value) ==
    {<<r, c>> \in (1..Len(lst)) \X (1..4) : lst[r][c] = value}

\* line 39: the lists list(set(...)) can return, one per iteration order
Orderings(S) ==
    {q \in [1..Cardinality(S) -> S] : \A x \in S : \E n \in DOMAIN q : q[n] = x}

SelectInit ==
    /\ list_of_csv \in BSeq(SelectRows, MaxSelect)
    /\ url_ids = <<>>
    /\ select_out = <<>>
    /\ id_at = 0
    /\ sel = "Start"
    /\ CompareIdle
    /\ IndexIdle
    /\ CreateIdle
    /\ ExtractIdle

\* lines 33-39
CollectUrlIds ==
    /\ sel = "Start"
    /\ url_ids' \in Orderings({list_of_csv[n][2] : n \in 1..Len(list_of_csv)})
    /\ sel' = "Open"
    /\ UNCHANGED <<list_of_csv, select_out, id_at>>
    /\ UNCHANGED not_select_vars

\* lines 44-46
WriteSelectHeader ==
    /\ sel = "Open"
    /\ select_out' = <<SelectHeader>>
    /\ id_at' = 1
    /\ sel' = "ForId"
    /\ UNCHANGED <<list_of_csv, url_ids>>
    /\ UNCHANGED not_select_vars

\* lines 47-57: one iteration; sample(answer, 1) returns any element
WriteSample ==
    /\ sel = "ForId"
    /\ id_at <= Len(url_ids)
    /\ \E random_sample \in find_all_instances(list_of_csv, url_ids[id_at]) :
           LET index == random_sample[1]
           IN  select_out' = Append(select_out,
                   <<list_of_csv[index][1], list_of_csv[index][2],
                     list_of_csv[index][3], list_of_csv[index][4]>>)
    /\ id_at' = id_at + 1
    /\ UNCHANGED <<list_of_csv, url_ids, sel>>
    /\ UNCHANGED not_select_vars

\* line 47: url_ids is exhausted
SelectFinish ==
    /\ sel = "ForId"
    /\ id_at > Len(url_ids)
    /\ sel' = "Done"
    /\ UNCHANGED <<list_of_csv, url_ids, select_out, id_at>>
    /\ UNCHANGED not_select_vars

SelectNext ==
    \/ CollectUrlIds
    \/ WriteSelectHeader
    \/ WriteSample
    \/ SelectFinish

SelectSpec == SelectInit /\ [][SelectNext]_vars

\* ------------------------------------------------------------------------
\* create_archive_urls.py: create_with_csv asks the timemap of every seed
\* for its timestamps and writes the archive URLs
\* ------------------------------------------------------------------------
MaxSeeds == 2
MaxStamps == 2

SeedHeader == <<"archive_id", "url_id", "url">>
SeedRows == {<<"1068", id, CurrUrl(id)>> : id \in UrlIds}

\* response.text.split("\n") of the texts the timemap can return: the
\* timestamps, followed by '' when the text is empty or ends with a newline
Texts ==
    {ts \o <<"">> : ts \in BSeq(Dates, MaxStamps)}
        \cup (BSeq(Dates, MaxStamps) \ {<<>>})

\* list.remove(''): the list without its first '', raised when it has none
remove(parts) ==
    LET at_empty == {n \in 1..Len(parts) : parts[n] = ""}
    IN  IF at_empty = {}
        THEN [raised |-> TRUE, list |-> parts]
        ELSE LET n == CHOOSE x \in at_empty : \A y \in at_empty : x <= y
             IN  [raised |-> FALSE,
                  list |-> SubSeq(parts, 1, n - 1) \o SubSeq(parts, n + 1, Len(parts))]

\* lines 64, 80-86
archived_url(archive_id, item, url, banner_removed) ==
    LET prefix == "https://wayback.archive-it.org/" \o archive_id
    IN  IF banner_removed
        THEN prefix \o "/" \o item \o "if_/" \o url
        ELSE prefix \o "/" \o item \o url

\* lines 90-92: the rows written for one seed, final_url outer, date inner
RowsOfSeed(line, timestamps, banner_removed) ==
    LET k == Len(timestamps)
    IN  [n \in 1..(k * k) |->
            <<line[1], line[2], timestamps[((n - 1) % k) + 1],
              archived_url(line[1], timestamps[((n - 1) \div k) + 1], line[3],
                           banner_removed)>>]

CreateInit ==
    /\ csv_in \in {<<SeedHeader>> \o q : q \in BSeq(SeedRows, MaxSeeds)}
    /\ remove_banner \in BOOLEAN
    /\ create_out = <<>>
    /\ count = 0
    /\ line_at = 0
    /\ response = NoResponse
    /\ cr = "Start"
    /\ CompareIdle
    /\ IndexIdle
    /\ SelectIdle
    /\ ExtractIdle

\* lines 45-51
WriteCreateHeader ==
    /\ cr = "Start"
    /\ create_out' = <<SelectHeader>>
    /\ count' = 0
    /\ line_at' = 1
    /\ cr' = "ForLine"
    /\ UNCHANGED <<csv_in, remove_banner, response>>
    /\ UNCHANGED not_create_vars

\* lines 52-55: the first line is skipped
SkipSeedHeader ==
    /\ cr = "ForLine"
    /\ line_at <= Len(csv_in)
    /\ count = 0
    /\ count' = 1
    /\ line_at' = line_at + 1
    /\ UNCHANGED <<csv_in, remove_banner, create_out, response, cr>>
    /\ UNCHANGED not_create_vars

\* lines 57-92: the timemap answers and the rows of the seed are written
WriteSeedRows ==
    /\ cr = "ForLine"
    /\ line_at <= Len(csv_in)
    /\ count # 0
    /\ \E parts \in Texts :
           /\ ~remove(parts).raised
           /\ response' = [raised |-> FALSE, parts |-> parts]
           /\ create_out' = create_out \o
                  RowsOfSeed(csv_in[line_at], remove(parts).list, remove_banner)
    /\ line_at' = line_at + 1
    /\ UNCHANGED <<csv_in, remove_banner, count, cr>>
    /\ UNCHANGED not_create_vars

\* line 76: the text has no empty last line, timestamps.remove('') raises
\* ValueError, which no handler of lines 95-100 catches
RemoveRaises ==
    /\ cr = "ForLine"
    /\ line_at <= Len(csv_in)
    /\ count # 0
    /\ \E parts \in Texts :
           /\ remove(parts).raised
           /\ response' = [raised |-> FALSE, parts |-> parts]
    /\ cr' = "Crashed"
    /\ UNCHANGED <<csv_in, remove_banner, create_out, count, line_at>>
    /\ UNCHANGED not_create_vars

\* lines 74, 95-100: session.get raises, the handler prints
RequestFails ==
    /\ cr = "ForLine"
    /\ line_at <= Len(csv_in)
    /\ count # 0
    /\ response' = [raised |-> TRUE, parts |-> <<>>]
    /\ line_at' = line_at + 1
    /\ UNCHANGED <<csv_in, remove_banner, create_out, count, cr>>
    /\ UNCHANGED not_create_vars

\* line 52: csv_reader is exhausted
CreateFinish ==
    /\ cr = "ForLine"
    /\ line_at > Len(csv_in)
    /\ cr' = "Done"
    /\ UNCHANGED <<csv_in, remove_banner, create_out, count, line_at, response>>
    /\ UNCHANGED not_create_vars

CreateNext ==
    \/ WriteCreateHeader
    \/ SkipSeedHeader
    \/ WriteSeedRows
    \/ RemoveRaises
    \/ RequestFails
    \/ CreateFinish

CreateSpec == CreateInit /\ [][CreateNext]_vars

\* ------------------------------------------------------------------------
\* extract_network_requests.py: create_with_csv and create_with_db visit
\* every seed with puppeteer_extract_requests; handle_response callbacks
\* append the responses to the shared CSVWriter
\* ------------------------------------------------------------------------
MaxSeedRows == 2
MaxResponses == 2

csv_out_path == "out/"
csv_index_name == "index.csv"

\* seed rows: archive_id, url_id, [date,] url
ExtractSeeds(use_archive) ==
    IF use_archive
    THEN {<<"1068", id, "20190101", ArchUrl(id, "20190101")>> : id \in UrlIds}
    ELSE {<<"1068", id, CurrUrl(id)>> : id \in UrlIds}

\* what handle_response reads of a response: url, resourceType, status
Responses == {<<uA, "script", "404">>, <<CurrPage, "document", "200">>}

\* lines 269-279: date, url and csv_out_name of a seed row
SeedDate(row, use_archive) == IF use_archive THEN row[3] ELSE "None"
SeedUrl(row, use_archive) == IF use_archive THEN row[4] ELSE row[3]
csv_out_name(row, use_archive) ==
    IF use_archive
    THEN csv_out_path \o row[1] \o "." \o row[2] \o "." \o row[3] \o ".csv"
    ELSE csv_out_path \o row[1] \o "." \o row[2] \o ".csv"

\* lines 150-156: CSVWriter.initialize appends this row
CaptureHeader(use_archive) ==
    IF use_archive
    THEN <<"archive_id", "url_id", "date", "url", "resource_type", "status_code">>
    ELSE <<"archive_id", "url_id", "url", "resource_type", "status_code">>

\* lines 158-181: the row CSVWriter.writerow appends for a scheduled call
CaptureRow(task, use_archive) ==
    IF use_archive
    THEN <<task.archive_id, task.url_id, task.date,
           task.res[1], task.res[2], task.res[3]>>
    ELSE <<task.archive_id, task.url_id,
           task.res[1], task.res[2], task.res[3]>>

\* lines 209-236: the row IndexWriter.writerow appends
IndexRow(row, use_archive, site_status, extraction_message) ==
    IF use_archive
    THEN <<row[1], row[2], row[3], row[4], site_status, "", extraction_message>>
    ELSE <<row[1], row[2], row[3], site_status, "", extraction_message>>

\* lines 405-431: what extract_requests returns for the states the visit
\* ends in: site_status and extraction_message
Outcome(v) ==
    CASE v = "SiteFailed" -> <<"FAIL", Unsuccessful>>
      [] v = "Returned"   -> <<"LIVE", Successful>>
      [] v = "Raised"     -> <<"LIVE", "Navigation Timeout Exceeded">>

\* the event loop is inside run_until_complete (line 411)
LoopRunning ==
    visit \in {"Launched", "Page", "Goto", "Closing", "FailingEarly", "Failing"}

ExtractInit ==
    /\ args \in {[use_db |-> d, make_csv |-> m, use_archive |-> a] :
                    d \in BOOLEAN, m \in BOOLEAN, a \in BOOLEAN}
    /\ ~args.use_db => args.make_csv
    /\ results \in BSeq(ExtractSeeds(args.use_archive), MaxSeedRows)
    /\ row_at = 0
    /\ csv_writer = [file_name |-> "", rows |-> <<>>]
    /\ index_writer = [rows |-> <<>>]
    /\ files = <<>>
    /\ table = <<>>
    /\ tasks = <<>>
    /\ browsers = 0
    /\ emitted = 0
    /\ visit = "Idle"
    /\ ex = "Start"
    /\ CompareIdle
    /\ IndexIdle
    /\ SelectIdle
    /\ CreateIdle

\* lines 256-266: create_with_csv up to its loop
CsvBegin ==
    /\ ex = "Start"
    /\ ~args.use_db
    /\ index_writer' = [rows |-> <<IF args.use_archive THEN ArchIndexHeader
                                                       ELSE CurrIndexHeader>>]
    /\ csv_writer' = [file_name |-> csv_out_path, rows |-> <<>>]
    /\ row_at' = 1
    /\ ex' = "ForRow"
    /\ UNCHANGED <<args, results, files, table, tasks, browsers, emitted, visit>>
    /\ UNCHANGED not_extract_vars

\* lines 319-333: create_with_db up to its loop
DbBegin ==
    /\ ex = "Start"
    /\ args.use_db
    /\ index_writer' =
         [rows |-> IF args.make_csv
                   THEN <<IF args.use_archive THEN ArchIndexHeader ELSE CurrIndexHeader>>
                   ELSE <<>>]
    /\ csv_writer' =
         [file_name |-> csv_out_path,
          rows |-> IF args.make_csv THEN <<CaptureHeader(args.use_archive)>> ELSE <<>>]
    /\ row_at' = 1
    /\ ex' = "ForRow"
    /\ UNCHANGED <<args, results, files, table, tasks, browsers, emitted, visit>>
    /\ UNCHANGED not_extract_vars

\* lines 268-288 (csv: reset and initialize of the writer) and 335-349 (db),
\* up to the call of extract_requests
BeginRow ==
    /\ ex = "ForRow"
    /\ row_at <= Len(results)
    /\ csv_writer' =
         IF args.use_db
         THEN csv_writer
         ELSE [file_name |-> csv_out_name(results[row_at], args.use_archive),
               rows |-> <<CaptureHeader(args.use_archive)>>]
    /\ visit' = "Site"
    /\ ex' = "Extracting"
    /\ UNCHANGED <<args, results, row_at, index_writer, files, table, tasks,
                   browsers, emitted>>
    /\ UNCHANGED not_extract_vars

\* lines 405-408: check_site_availability reports FAIL
SiteFails ==
    /\ visit = "Site"
    /\ visit' = "SiteFailed"
    /\ UNCHANGED <<args, results, row_at, csv_writer, index_writer, files, table,
                   tasks, browsers, emitted, ex>>
    /\ UNCHANGED not_extract_vars

\* lines 411, 462: the coroutine starts and launches a browser
Launch ==
    /\ visit = "Site"
    /\ browsers' = browsers + 1
    /\ emitted' = 0
    /\ visit' = "Launched"
    /\ UNCHANGED <<args, results, row_at, csv_writer, index_writer, files, table,
                   tasks, ex>>
    /\ UNCHANGED not_extract_vars

\* line 476
NewPage ==
    /\ visit = "Launched"
    /\ visit' = "Page"
    /\ UNCHANGED <<args, results, row_at, csv_writer, index_writer, files, table,
                   tasks, browsers, emitted, ex>>
    /\ UNCHANGED not_extract_vars

\* line 476: browser.newPage() raises; the statement stands before the try
\* of line 478, the exception leaves the coroutine
NewPageRaises ==
    /\ visit = "Launched"
    /\ visit' = "Raised"
    /\ UNCHANGED <<args, results, row_at, csv_writer, index_writer, files, table,
                   tasks, browsers, emitted, ex>>
    /\ UNCHANGED not_extract_vars

\* lines 479-485: interception is set, the handlers are registered, goto
\* is awaited
Intercept ==
    /\ visit = "Page"
    /\ visit' = "Goto"
    /\ UNCHANGED <<args, results, row_at, csv_writer, index_writer, files, table,
                   tasks, browsers, emitted, ex>>
    /\ UNCHANGED not_extract_vars

\* lines 479, 490: setRequestInterception raises, no handler is registered
SetupRaises ==
    /\ visit = "Page"
    /\ visit' = "FailingEarly"
    /\ UNCHANGED <<args, results, row_at, csv_writer, index_writer, files, table,
                   tasks, browsers, emitted, ex>>
    /\ UNCHANGED not_extract_vars

\* lines 485, 490: goto raises
GotoRaises ==
    /\ visit = "Goto"
    /\ visit' = "Failing"
    /\ UNCHANGED <<args, results, row_at, csv_writer, index_writer, files, table,
                   tasks, browsers, emitted, ex>>
    /\ UNCHANGED not_extract_vars

\* lines 482-483: a 'response' event of the page, while it loads or while it
\* is being closed (goto waits for networkidle2, which leaves up to two
\* requests in flight); ensure_future schedules handle_response with the ids
\* of the page being visited, nothing awaits the future
ResponseArrives ==
    /\ visit \in {"Goto", "Closing", "Failing"}
    /\ emitted < MaxResponses
    /\ \E res \in Responses :
           tasks' = Append(tasks,
               [archive_id |-> results[row_at][1],
                url_id |-> results[row_at][2],
                date |-> SeedDate(results[row_at], args.use_archive),
                res |-> res])
    /\ emitted' = emitted + 1
    /\ UNCHANGED <<args, results, row_at, csv_writer, index_writer, files, table,
                   browsers, visit, ex>>
    /\ UNCHANGED not_extract_vars

\* lines 470-472: the event loop runs a scheduled handle_response
RunTask ==
    /\ LoopRunning
    /\ tasks # <<>>
    /\ csv_writer' =
         [csv_writer EXCEPT !.rows = Append(@, CaptureRow(Head(tasks), args.use_archive))]
    /\ tasks' = Tail(tasks)
    /\ UNCHANGED <<args, results, row_at, index_writer, files, table, browsers,
                   emitted, visit, ex>>
    /\ UNCHANGED not_extract_vars

\* line 485: goto returns
GotoReturns ==
    /\ visit = "Goto"
    /\ visit' = "Closing"
    /\ UNCHANGED <<args, results, row_at, csv_writer, index_writer, files, table,
                   tasks, browsers, emitted, ex>>
    /\ UNCHANGED not_extract_vars

\* lines 498-502: page.close() returns or raises, the browser is closed
\* either way; the coroutine returns
CloseAll ==
    /\ visit = "Closing"
    /\ browsers' = browsers - 1
    /\ visit' = "Returned"
    /\ UNCHANGED <<args, results, row_at, csv_writer, index_writer, files, table,
                   tasks, emitted, ex>>
    /\ UNCHANGED not_extract_vars

\* lines 490-496: after a failure the page and the browser are closed and
\* the exception is raised again
CloseAfterFailure ==
    /\ visit \in {"FailingEarly", "Failing"}
    /\ browsers' = browsers - 1
    /\ visit' = "Raised"
    /\ UNCHANGED <<args, results, row_at, csv_writer, index_writer, files, table,
                   tasks, emitted, ex>>
    /\ UNCHANGED not_extract_vars

\* lines 288-296: the index row is appended; the capture file is written
\* unless the writer holds one row
CsvEndRow ==
    /\ ex = "Extracting"
    /\ ~args.use_db
    /\ visit \in {"SiteFailed", "Returned", "Raised"}
    /\ index_writer' =
         [rows |-> Append(index_writer.rows,
                          IndexRow(results[row_at], args.use_archive,
                                   Outcome(visit)[1], Outcome(visit)[2]))]
    /\ files' = IF Len(csv_writer.rows) # 1
                THEN (csv_writer.file_name :> csv_writer.rows) @@ files
                ELSE files
    /\ row_at' = row_at + 1
    /\ visit' = "Idle"
    /\ ex' = "ForRow"
    /\ UNCHANGED <<args, results, csv_writer, table, tasks, browsers, emitted>>
    /\ UNCHANGED not_extract_vars

\* lines 349-362
DbEndRow ==
    /\ ex = "Extracting"
    /\ args.use_db
    /\ visit \in {"SiteFailed", "Returned", "Raised"}
    /\ index_writer' =
         IF args.make_csv
         THEN [rows |-> Append(index_writer.rows,
                               IndexRow(results[row_at], args.use_archive,
                                        Outcome(visit)[1], Outcome(visit)[2]))]
         ELSE index_writer
    /\ row_at' = row_at + 1
    /\ visit' = "Idle"
    /\ ex' = "ForRow"
    /\ UNCHANGED <<args, results, csv_writer, files, table, tasks, browsers, emitted>>
    /\ UNCHANGED not_extract_vars

\* line 299: the index file is written
CsvFinish ==
    /\ ex = "ForRow"
    /\ ~args.use_db
    /\ row_at > Len(results)
    /\ files' = (csv_index_name :> index_writer.rows) @@ files
    /\ ex' = "Done"
    /\ UNCHANGED <<args, results, row_at, csv_writer, index_writer, table, tasks,
                   browsers, emitted, visit>>
    /\ UNCHANGED not_extract_vars

\* lines 364-383: both writers are written with make_csv; the first element
\* of csv_writer.rows is skipped and the others are inserted
DbFinish ==
    /\ ex = "ForRow"
    /\ args.use_db
    /\ row_at > Len(results)
    /\ files' = IF args.make_csv
                THEN (csv_writer.file_name :> csv_writer.rows) @@
                     (csv_index_name :> index_writer.rows) @@ files
                ELSE files
    /\ table' = IF csv_writer.rows = <<>> THEN <<>> ELSE Tail(csv_writer.rows)
    /\ ex' = "Done"
    /\ UNCHANGED <<args, results, row_at, csv_writer, index_writer, tasks,
                   browsers, emitted, visit>>
    /\ UNCHANGED not_extract_vars

ExtractNext ==
    \/ CsvBegin
    \/ DbBegin
    \/ BeginRow
    \/ SiteFails
    \/ Launch
    \/ NewPage
    \/ NewPageRaises
    \/ Intercept
    \/ SetupRaises
    \/ GotoRaises
    \/ ResponseArrives
    \/ RunTask
    \/ GotoReturns
    \/ CloseAll
    \/ CloseAfterFailure
    \/ CsvEndRow
    \/ DbEndRow
    \/ CsvFinish
    \/ DbFinish

ExtractSpec == ExtractInit /\ [][ExtractNext]_vars

\* ------------------------------------------------------------------------
\* Vocabulary of the properties
\* ------------------------------------------------------------------------
\* both capture files of an index entry can be opened
Readable(e) == e[4] \in DOMAIN arch_dir /\ e[3] \in DOMAIN curr_dir

\* similarity of an archived URL and a current URL as line 137 computes it
Score(a_url, c_url) == partial_ratio(lower(a_url), lower(c_url))

\* a capture row has the url and status_code fields
HasFields(row) == {"url", "status_code"} \subseteq DOMAIN row

\* every row of both capture lists in the frame has both fields
WellFormed(f) ==
    /\ \A k \in 1..Len(f.arch_requests_data) : HasFields(f.arch_requests_data[k])
    /\ \A m \in 1..Len(f.curr_requests_data) : HasFields(f.curr_requests_data[m])

SetMax(S) == CHOOSE x \in S : \A y \in S : y <= x

\* best score of an archived URL over a current capture (0 when it is empty)
BestScore(a_url, curr) ==
    SetMax({0} \cup {Score(a_url, curr[m].url) : m \in 1..Len(curr)})

\* number of archived records of a readable entry that find a match
MatchCount(e) ==
    LET arch == arch_dir[e[4]]
        curr == curr_dir[e[3]]
    IN  Cardinality({k \in 1..Len(arch) : BestScore(arch[k].url, curr) > 90})

DataRows == {k \in 1..Len(out) : k > 1}

\* C1: the row written for a readable index entry with no match has
\* correspondence ratio (column 9) exactly 0, wherever the entry stands.
C1_ZeroMatchRowHasZeroRatio ==
    [][(/\ pc = "Emitting"
        /\ Readable(index_lst[i])
        /\ MatchCount(index_lst[i]) = 0)
       => (/\ pc' = "ForPair"
           /\ Len(out') = Len(out) + 1
           /\ out'[Len(out')][9] = <<0, 1>>)]_vars

\* C2: the write step of an index entry whose capture file could not be
\* opened appends no row to the output file.
C2_NoRowForUnreadablePair ==
    [][(pc = "Emitting" /\ ~Readable(index_lst[i])) => out' = out]_vars

\* C3: no uncaught exception ends the run at an unreadable index entry, and
\* Done is reached only after the last index entry.
C3_UnreadableNeverAborts ==
    /\ pc = "Crashed" => Readable(index_lst[i])
    /\ pc = "Done" => i = Len(index_lst) + 1

\* C4: the run never ends in an uncaught exception, and when it is done the
\* output holds exactly one data row per readable index entry.
C4_OneRowPerReadablePair ==
    /\ pc # "Crashed"
    /\ pc = "Done" =>
         Cardinality(DataRows) =
             Cardinality({k \in 1..Len(index_lst) : Readable(index_lst[k])})

\* C5: in every data row, num_requests_with_errors <= num_requests_in_common
\* <= num_archive_requests (columns 8, 7, 6).
C5_RowCountsOrdered ==
    \A k \in DataRows : out[k][8] <= out[k][7] /\ out[k][7] <= out[k][6]

SetMin(S) == CHOOSE x \in S : \A y \in S : x <= y

\* positions of the current records that score above the threshold against
\* a_url, and of those that score the maximum
Above(a_url, curr) == {m \in 1..Len(curr) : Score(a_url, curr[m].url) > 90}
AtMax(a_url, curr) ==
    {m \in 1..Len(curr) : Score(a_url, curr[m].url) = BestScore(a_url, curr)}

C8_MatchIffBestScoreAboveThreshold ==
    [][(/\ pc = "Matching"
        /\ j <= Len(frame.arch_requests_data)
        /\ WellFormed(frame)) =>
        LET a_row == frame.arch_requests_data[j]
            best == BestScore(a_row.url, frame.curr_requests_data)
            n == Len(frame.matched_requests)
        IN  /\ pc' = "Matching"
            /\ best > 90 =>
                 /\ Len(frame'.matched_requests) = n + 1
                 /\ frame'.matched_requests[n + 1][2] = a_row
                 /\ frame'.missing_requests = frame.missing_requests
            /\ best <= 90 =>
                 /\ frame'.matched_requests = frame.matched_requests
                 /\ frame'.missing_requests = frame.missing_requests + 1]_vars

\* an archived record whose best score is exactly 90 has been counted missing
C8_Witness ==
    /\ pc = "Matching"
    /\ j = 2
    /\ frame.curr_requests_data # <<>>
    /\ BestScore(frame.arch_requests_data[1].url, frame.curr_requests_data) = 90
    /\ frame.missing_requests = 1
    /\ frame.matched_requests = <<>>

\* C9: a step of the matching loop that appends a pair counts it as an error
\* exactly when the two status codes differ and neither is "302".
C9_ErrorIffCodesDifferAndNoRedirect ==
    [][(/\ pc = "Matching"
        /\ j <= Len(frame.arch_requests_data)
        /\ Len(frame'.matched_requests) = Len(frame.matched_requests) + 1) =>
        LET p == frame'.matched_requests[Len(frame'.matched_requests)]
            c == p[1].status_code
            a == p[2].status_code
        IN  IF c # a /\ c # "302" /\ a # "302"
            THEN frame'.num_errors = frame.num_errors + 1
            ELSE frame'.num_errors = frame.num_errors]_vars

\* a pair with codes "200" (current) and "302" (archive) was matched and not
\* counted, then a pair with codes "200" and "404" was matched and counted
C9_Witness ==
    /\ pc = "Emitting"
    /\ Len(frame.matched_requests) = 2
    /\ frame.matched_requests[1][1].status_code = "200"
    /\ frame.matched_requests[1][2].status_code = "302"
    /\ frame.matched_requests[2][1].status_code = "200"
    /\ frame.matched_requests[2][2].status_code = "404"
    /\ frame.num_errors = 1

\* the locals at the head of the loop are those of the loop run as a function
PureRunAgrees ==
    pc = "ForPair" =>
        RunPrefix(FreshFrame, SubSeq(index_lst, 1, i - 1), 1, arch_dir, curr_dir)
            = [crashed |-> FALSE, frame |-> frame]

\* C10: the row written for an index entry is the row any other run writes
\* for the same entry over the same capture files, whatever index entries
\* that run processed before it.
C10_RowDependsOnlyOnOwnPair ==
    (pc = "ForPair" /\ i > 1) =>
        \A alt \in BSeq(Entries, MaxIndex - 1) :
            LET r == RunPrefix(FreshFrame, alt, 1, arch_dir, curr_dir)
                g == RunPair(r.frame, index_lst[i - 1], arch_dir, curr_dir)
            IN  (~r.crashed /\ RowNames \subseteq g.bound) =>
                    Row(g) = out[Len(out)]

\* the step that appends the row of a readable index entry
WritesRowOfReadable ==
    pc = "Emitting" /\ Readable(index_lst[i]) /\ pc' = "ForPair"

\* C11: a data row has 9 columns; columns 1 and 3 are the current and archive
\* page URLs of its index entry and columns 5 and 6 the sizes of the entry's
\* current and archive capture files.
C11_RowCarriesEntryUrlsAndSizes ==
    [][WritesRowOfReadable =>
        LET row == out'[Len(out')]
            e == index_lst[i]
        IN  /\ Len(row) = 9
            /\ row[1] = e[1]
            /\ row[3] = e[2]
            /\ row[5] = Len(curr_dir[e[3]])
            /\ row[6] = Len(arch_dir[e[4]])]_vars

\* number of archived records of a readable entry whose match (the first
\* current record scoring above 90) has a different status code, neither "302"
ErrorCount(e) ==
    LET arch == arch_dir[e[4]]
        curr == curr_dir[e[3]]
    IN  Cardinality({k \in 1..Len(arch) :
            /\ Above(arch[k].url, curr) # {}
            /\ LET c == curr[SetMin(Above(arch[k].url, curr))].status_code
                   a == arch[k].status_code
               IN  c # a /\ c # "302" /\ a # "302"})

\* C12: the row of a readable entry with at least one match carries
\* ic = (matched - errors) / matched, a value in [0, 1]; one match with equal
\* codes gives 1, one match with differing non-redirect codes gives 0.
C12_RatioIsErrorFreeShareOfMatched ==
    [][(WritesRowOfReadable /\ MatchCount(index_lst[i]) > 0) =>
        LET row == out'[Len(out')]
            matched == MatchCount(index_lst[i])
            errors == ErrorCount(index_lst[i])
            num == row[9][1]
            den == row[9][2]
        IN  /\ row[7] = matched
            /\ row[8] = errors
            /\ den > 0
            /\ num * matched = (matched - errors) * den
            /\ 0 <= num /\ num <= den
            /\ (matched = 1 /\ errors = 0) => row[9] = <<1, 1>>
            /\ (matched = 1 /\ errors = 1) => row[9] = <<0, 1>>]_vars

\* a row with ratio 1/2 (two matches, one error) has been written
C12_Witness ==
    /\ pc = "ForPair"
    /\ i = 2
    /\ Readable(index_lst[1])
    /\ out[2][7] = 2
    /\ out[2][8] = 1
    /\ out[2][9] = <<1, 2>>

\* C13: a step of get_file_names.open_with_csv adds a row to its output only
\* when the current and the archive index row at hand have the same url id
\* and both end in the extraction status "Extraction successful"; the row
\* added carries the URLs of these two rows.
C13_PairOnlyWhenSameIdAndBothSuccessful ==
    [][(at = "Loop" /\ csv_file_out' # csv_file_out) =>
        /\ int(crow[2]) = int(arow[2])
        /\ crow[Len(crow)] = "Extraction successful"
        /\ arow[Len(arow)] = "Extraction successful"
        /\ Len(csv_file_out') = Len(csv_file_out) + 1
        /\ csv_file_out'[Len(csv_file_out')][1] = crow[3]
        /\ csv_file_out'[Len(csv_file_out')][2] = arow[4]]_vars

\* a pair was written after a current row with a failed extraction and the
\* same url id was passed over
C13_Witness ==
    /\ Len(csv_file_out) = 2
    /\ curr_csv_reader = 3
    /\ curr_csv_file[2][6] # "Extraction successful"
    /\ curr_csv_file[2][2] = curr_csv_file[3][2]
    /\ csv_file_out[2][1] = curr_csv_file[3][3]

\* both capture files of an index entry open and all their rows have the
\* url and status_code fields
Parseable(e) ==
    IF ~Readable(e)
    THEN FALSE
    ELSE /\ \A k \in 1..Len(arch_dir[e[4]]) : HasFields(arch_dir[e[4]][k])
         /\ \A m \in 1..Len(curr_dir[e[3]]) : HasFields(curr_dir[e[3]][m])

\* C14: while the run is at an index entry with a capture file that cannot be
\* opened, or that opens with rows lacking the url or status_code field, no
\* step ends the run with an uncaught exception and no step writes a row.
C14_ReadFailureSkipsPairAndContinues ==
    [][(/\ pc \in {"ForPair", "Matching", "Emitting"}
        /\ i <= Len(index_lst)
        /\ ~Parseable(index_lst[i]))
       => (pc' # "Crashed" /\ out' = out)]_vars

\* the archived records of the frame that score above 90 against the single
\* current record
MatchingSingle(f) ==
    {k \in 1..Len(f.arch_requests_data) :
        Score(f.arch_requests_data[k].url, f.curr_requests_data[1].url) > 90}

\* C15: when the matching loop ends over a single current record, every
\* archived record scoring above 90 against it is in the matched list, paired
\* with that record, in archive order (two such records give two pairs), and
\* num_errors counts each pair by its own status codes.
C15_DuplicateMatchesKept ==
    (/\ pc = "Matching"
     /\ j > Len(frame.arch_requests_data)
     /\ WellFormed(frame)
     /\ Len(frame.curr_requests_data) = 1) =>
        LET arch == frame.arch_requests_data
            c == frame.curr_requests_data[1]
            hits == SelectSeq(arch, LAMBDA a : Score(a.url, c.url) > 90)
        IN  /\ Len(frame.matched_requests) = Cardinality(MatchingSingle(frame))
            /\ frame.matched_requests = [n \in 1..Len(hits) |-> <<c, hits[n]>>]
            /\ frame.num_errors =
                 Cardinality({n \in 1..Len(hits) :
                     /\ c.status_code # hits[n].status_code
                     /\ c.status_code # "302"
                     /\ hits[n].status_code # "302"})

\* two different archived records were paired with the same single current
\* record; one of the pairs is an error, the other is not
C15_Witness ==
    /\ pc = "Matching"
    /\ j = 3
    /\ Len(frame.curr_requests_data) = 1
    /\ Len(frame.matched_requests) = 2
    /\ frame.matched_requests[1][1] = frame.matched_requests[2][1]
    /\ frame.matched_requests[1][2] # frame.matched_requests[2][2]
    /\ frame.num_errors = 1

\* C16: in the matching loop, every archived record handled so far is counted
\* exactly once, as matched or as missing; when the loop ends
\* len(matched_requests) + missing_requests is the number of archived records
\* and the matched list holds, in order, one pair per archived record with a
\* current record scoring above 90.
C16_EveryArchivedRecordCountedOnce ==
    pc = "Matching" =>
        LET arch == frame.arch_requests_data
            curr == frame.curr_requests_data
            matched == frame.matched_requests
        IN  /\ Len(matched) + frame.missing_requests = j - 1
            /\ j > Len(arch) =>
                 /\ Len(matched) + frame.missing_requests = Len(arch)
                 /\ frame.missing_requests = Len(arch) - Len(matched)
                 /\ [n \in 1..Len(matched) |-> matched[n][2]]
                      = SelectSeq(arch, LAMBDA a : Above(a.url, curr) # {})

\* a loop has ended with one archived record matched and one missing
C16_Witness ==
    /\ pc = "Matching"
    /\ j = 3
    /\ Len(frame.arch_requests_data) = 2
    /\ Len(frame.matched_requests) = 1
    /\ frame.missing_requests = 1

\* C17: once written, the header is the first row of the report and no other
\* row of the report is a header, whatever the index holds.
C17_HeaderOnceAndFirst ==
    /\ pc = "Start" => out = <<>>
    /\ pc # "Start" =>
         /\ Len(out) >= 1
         /\ out[1] = Header
         /\ \A k \in DataRows : out[k] # Header

\* a run over an index with an unreadable entry is done and wrote three rows
C17_Witness ==
    /\ pc = "Done"
    /\ Len(out) = 4
    /\ out[1] = Header
    /\ \E k \in 1..Len(index_lst) : ~Readable(index_lst[k])

\* C18: while index entry i is processed the report holds the header and the
\* rows of entries 1..i-1 and nothing else, and data row k carries the capture
\* file names of index entry k.
C18_RowsInIndexOrder ==
    /\ pc \in {"ForPair", "Matching", "Emitting", "Crashed", "Done"} =>
         Len(out) = i
    /\ pc = "Done" => i = Len(index_lst) + 1
    /\ \A k \in DataRows :
         /\ k - 1 <= Len(index_lst)
         /\ out[k][2] = index_lst[k - 1][3]
         /\ out[k][4] = index_lst[k - 1][4]

\* a run over three index entries, the first two on different files, is done
C18_Witness ==
    /\ pc = "Done"
    /\ Len(index_lst) = 3
    /\ index_lst[1][3] # index_lst[2][3]
    /\ Len(out) = 4
    /\ out[2][2] = index_lst[1][3]
    /\ out[3][2] = index_lst[2][3]

\* C19: when the matching loop of an index entry ends, its matched pairs,
\* missing count and error count are those of a run of the loop on the same
\* two capture files that no index entry preceded.
C19_MatchingIsDeterministic ==
    (pc = "Matching" /\ j > Len(frame.arch_requests_data)) =>
        LET r == ReadCaptures(BindEntry(FreshFrame, index_lst[i]), arch_dir, curr_dir)
            g == MatchAll(r.frame, r.frame.arch_requests_data, 1)
        IN  /\ g.matched_requests = frame.matched_requests
            /\ g.missing_requests = frame.missing_requests
            /\ g.num_errors = frame.num_errors

\* the loop of a second index entry has ended with one error after the first
\* entry's row reported one error
C19_Witness ==
    /\ pc = "Matching"
    /\ i = 2
    /\ j > Len(frame.arch_requests_data)
    /\ out[2][8] = 1
    /\ Len(frame.matched_requests) = 2
    /\ frame.num_errors = 1

\* C20: a readable index entry whose capture rows have their fields and whose
\* current or archive capture is empty enters the matching loop and leaves it
\* without an exception, with no matched pair, and with every archived record
\* counted missing (none when the archive capture is empty).
C20_EmptyCaptureSetIsNotAnError ==
    [][(/\ pc \in {"ForPair", "Matching"}
        /\ i <= Len(index_lst)
        /\ Parseable(index_lst[i])
        /\ \/ arch_dir[index_lst[i][4]] = <<>>
           \/ curr_dir[index_lst[i][3]] = <<>>) =>
        LET arch == arch_dir[index_lst[i][4]]
        IN  /\ pc = "ForPair" => pc' = "Matching"
            /\ pc = "Matching" => pc' \in {"Matching", "Emitting"}
            /\ frame'.matched_requests = <<>>
            /\ pc' = "Emitting" =>
                 /\ frame'.num_requests_in_common = 0
                 /\ frame'.missing_requests = Len(arch)]_vars

\* the loop over two archived records and an empty current capture has ended
C20_Witness ==
    /\ pc = "Emitting"
    /\ Readable(index_lst[i])
    /\ curr_dir[index_lst[i][3]] = <<>>
    /\ Len(arch_dir[index_lst[i][4]]) = 2
    /\ frame.missing_requests = 2
    /\ frame.matched_requests = <<>>
    /\ "num_requests_in_common" \in frame.bound

\* the data rows of an index file are in ascending order of url id
SortedById(file) ==
    \A m, n \in 2..Len(file) : m < n => int(file[m][2]) <= int(file[n][2])

\* positions of the current index rows with the url id of archive row a and a
\* successful extraction
CurrentFor(a) ==
    {m \in 2..Len(curr_csv_file) :
        /\ int(curr_csv_file[m][2]) = int(a[2])
        /\ curr_csv_file[m][6] = "Extraction successful"}

\* the archive index rows that must be paired, in the order of the file
ArchiveToPair ==
    SelectSeq(Tail(arch_csv_file),
              LAMBDA a : a[7] = "Extraction successful" /\ CurrentFor(a) # {})

\* C21: over index files sorted by url id, a finished run has written, after
\* the header and in archive-index order, exactly one row per archive row with
\* a successful extraction whose url id has a successful current row, each
\* with the URL of the first such current row; and writing a pair leaves the
\* current row at hand in place for the archive rows that follow.
C21_MergeJoinComplete ==
    /\ [](( /\ at = "Done"
            /\ SortedById(curr_csv_file)
            /\ SortedById(arch_csv_file)) =>
          LET hits == ArchiveToPair
          IN  /\ Len(csv_file_out) = 1 + Len(hits)
              /\ \A n \in 1..Len(hits) :
                    /\ csv_file_out[n + 1][2] = hits[n][4]
                    /\ csv_file_out[n + 1][1] =
                         curr_csv_file[SetMin(CurrentFor(hits[n]))][3])
    /\ [][(at = "Loop" /\ csv_file_out' # csv_file_out) =>
            (crow' = crow /\ curr_csv_reader' = curr_csv_reader)]_vars

\* two archive rows of different dates and the same url id were paired with
\* the one current row of that id
C21_Witness ==
    /\ at = "Done"
    /\ Len(curr_csv_file) = 2
    /\ Len(arch_csv_file) = 3
    /\ arch_csv_file[2][2] = arch_csv_file[3][2]
    /\ arch_csv_file[2][3] # arch_csv_file[3][3]
    /\ Len(csv_file_out) = 3
    /\ csv_file_out[2][1] = csv_file_out[3][1]
    /\ csv_file_out[2][2] # csv_file_out[3][2]

\* C22: over index files that have their header row, the run never ends in
\* an uncaught StopIteration, and a finished run over an index without data
\* rows leaves the header alone in the output.
C22_ReaderExhaustionAbsorbed ==
    (Len(curr_csv_file) >= 1 /\ Len(arch_csv_file) >= 1) =>
        /\ at # "Crashed"
        /\ (at = "Done" /\ (Len(curr_csv_file) = 1 \/ Len(arch_csv_file) = 1)) =>
             csv_file_out = <<IndexHeader>>

\* C23: select_archived_urls writes, after the header, one row per distinct
\* url id of the input, and the row written for a url id is a row of the input
\* whose url_id column (the second) holds that url id.
C23_OneOwnRowPerUrlId ==
    /\ sel = "Done" =>
         Len(select_out) = 1 + Cardinality({list_of_csv[n][2] : n \in 1..Len(list_of_csv)})
    /\ \A k \in 2..Len(select_out) :
         /\ \E n \in 1..Len(list_of_csv) : select_out[k] = list_of_csv[n]
         /\ select_out[k][2] = url_ids[k - 1]

\* C24: the step that handles a seed whose timemap answered with k timestamps
\* (one per line, the last line empty) appends exactly k rows, and every row
\* it appends has in its archive_url the timestamp of its date column.
C24_OneRowPerTimestamp ==
    [][(/\ cr = "ForLine"
        /\ count # 0
        /\ line_at' = line_at + 1
        /\ ~response'.raised) =>
        LET k == Cardinality({n \in 1..Len(response'.parts) : response'.parts[n] # ""})
            seed == csv_in[line_at]
        IN  /\ Len(create_out') = Len(create_out) + k
            /\ \A n \in (Len(create_out) + 1)..Len(create_out') :
                  LET row == create_out'[n]
                  IN  row[4] \in
                        {"https://wayback.archive-it.org/" \o seed[1] \o "/" \o row[3]
                             \o "if_/" \o seed[3],
                         "https://wayback.archive-it.org/" \o seed[1] \o "/" \o row[3]
                             \o seed[3]}]_vars

\* the path at which compare_network_requests.py opens the capture file of an
\* index row: the directory, "/", and the name get_file_names.py derives
DerivedPath(index_row, use_archive) ==
    "out" \o "/" \o (IF use_archive THEN archive_filename(index_row)
                                     ELSE current_filename(index_row))

\* C25: in create_with_csv, once the row of a seed is handled, every index
\* row with extraction message "Extraction successful" has its capture file
\* on disk under the name get_file_names derives for it.
C25_SuccessfulRowHasCaptureFile ==
    (~args.use_db /\ ex \in {"ForRow", "Extracting", "Done"}) =>
        \A k \in 2..Len(index_writer.rows) :
            LET index_row == index_writer.rows[k]
            IN  index_row[Len(index_row)] = "Extraction successful" =>
                    DerivedPath(index_row, args.use_archive) \in DOMAIN files

\* the rows of the CSVWriter that handle_response appended
CapturedRows ==
    SelectSeq(csv_writer.rows, LAMBDA r : r # CaptureHeader(args.use_archive))

\* C26: when create_with_db is done, the network-requests table holds every
\* response row appended to the CSVWriter exactly once, with or without
\* make_csv.
C26_EveryResponseInsertedOnce ==
    (args.use_db /\ ex = "Done") => table = CapturedRows

\* C27: whenever puppeteer_extract_requests is not running (it has not
\* started, has returned or has raised), no browser it launched is open.
C27_BrowserClosedOnEveryPath ==
    visit \in {"Idle", "Site", "SiteFailed", "Returned", "Raised"} => browsers = 0

\* C28: in create_with_csv, every response row in the CSVWriter carries the
\* archive_id and url_id of the seed being handled, and every response row of
\* a capture file on disk carries the ids the file is named after.
C28_RowsCarryTheirPageIds ==
    ~args.use_db =>
        /\ ex = "Extracting" =>
             \A k \in 2..Len(csv_writer.rows) :
                 /\ csv_writer.rows[k][1] = results[row_at][1]
                 /\ csv_writer.rows[k][2] = results[row_at][2]
        /\ \A name \in DOMAIN files \ {csv_index_name} :
             \A k \in 2..Len(files[name]) :
                 LET r == files[name][k]
                 IN  name = IF args.use_archive
                            THEN "out/" \o r[1] \o "." \o r[2] \o "." \o r[3] \o ".csv"
                            ELSE "out/" \o r[1] \o "." \o r[2] \o ".csv"

====
